---- MODULE Spec2Model ----
(***************************************************************************)
(* Model of src/src/data_generator.py: the per-file pipeline               *)
(*   build_PDG (key-line classification + line-level dependence graph)     *)
(*   build_XFG (bidirectional slicing)                                     *)
(*   dump_XFG / process_parallel / generate (batch loop).                  *)
(*                                                                         *)
(* Python None is modelled by a record with none = TRUE; a text field is a *)
(* sequence of one-character strings so that split(':') and int() are      *)
(* computed rather than assumed.                                           *)
(***************************************************************************)
EXTENDS Integers, Sequences, FiniteSets, TLC

\* ------------------------------------------------------------------ bounds
MaxLine == 2
MaxLocLine == 1
MaxNodes == 2
MaxWalkNodes == 3
MaxEdgeRows == 2
MaxGraphEdges == 2
MaxKeyLines == 1
MaxFiles == 2
RunMaxNodes == 1
RunMaxEdgeRows == 1

\* ------------------------------------------------------------------ basic helpers
Range(s) == {s[i] : i \in DOMAIN s}

\* all orders in which the elements of a finite set can be iterated
Orders(S) == {s \in [1..Cardinality(S) -> S] : Range(s) = S}

SubsetsUpTo(S, n) == {T \in SUBSET S : Cardinality(T) <= n}

\* ------------------------------------------------------------------ graphs
\* nx.DiGraph as used by the program: a node set, an edge set (at most one
\* edge per ordered pair) and the "c/d" attribute of every edge.
Categories == <<"call", "array", "ptr", "arith">>

CategorySet == Range(Categories)

NoneGraph == [none |-> TRUE, nodes |-> {}, edges |-> {}, tag |-> <<>>]

NoneMap == [none |-> TRUE, lines |-> [c \in CategorySet |-> {}]]

NoneRes == [none |-> TRUE, xfgs |-> [c \in CategorySet |-> <<>>]]

EmptyRes == [none |-> FALSE, xfgs |-> [c \in CategorySet |-> <<>>]]

\* PDG._pred[fro] / PDG._succ[fro]; the code first tests `fro in PDG._pred`
Pred(G, fro) == IF fro \in G.nodes THEN {e[1] : e \in {d \in G.edges : d[2] = fro}} ELSE {}

Succ(G, fro) == IF fro \in G.nodes THEN {e[2] : e \in {d \in G.edges : d[1] = fro}} ELSE {}

\* as Subgraph, keeping every edge that starts at a kept node
Subgraph_source_only(G, lines) ==
    LET ns == lines \cap G.nodes
        es == {e \in G.edges : e[1] \in ns}
    IN  [nodes |-> ns, edges |-> es, tag |-> [e \in es |-> G.tag[e]]]

\* PDG.subgraph(list(lines)).copy(): nodes of the list that are not nodes of
\* the graph are ignored; every edge between kept nodes is kept with its data.
Subgraph(G, lines) ==
    LET ns == lines \cap G.nodes
        es == {e \in G.edges : e[1] \in ns /\ e[2] \in ns}
    IN  [nodes |-> ns, edges |-> es, tag |-> [e \in es |-> G.tag[e]]]

\* ------------------------------------------------------------------ text fields
DigitVal == [c \in {"0", "1", "2", "3", "4", "5", "6", "7", "8", "9"} |->
               CASE c = "0" -> 0 [] c = "1" -> 1 [] c = "2" -> 2 [] c = "3" -> 3
                 [] c = "4" -> 4 [] c = "5" -> 5 [] c = "6" -> 6 [] c = "7" -> 7
                 [] c = "8" -> 8 [] c = "9" -> 9]

DigitChar == <<"1", "2", "3", "4", "5", "6", "7", "8", "9">>

\* location.split(':')[0]: the text before the first colon
RECURSIVE SplitHead(_)
SplitHead(s) ==
    IF s = <<>> \/ Head(s) = ":" THEN <<>> ELSE <<Head(s)>> \o SplitHead(Tail(s))

AllDigits(s) == s # <<>> /\ \A i \in DOMAIN s : s[i] \in DOMAIN DigitVal

RECURSIVE DigitsVal(_)
DigitsVal(s) == IF s = <<>> THEN 0 ELSE 10 * DigitsVal(SubSeq(s, 1, Len(s) - 1)) + DigitVal[s[Len(s)]]

\* int(text) succeeds: an optional sign and at least one decimal digit
IntOK(s) ==
    IF s # <<>> /\ Head(s) \in {"-", "+"} THEN AllDigits(Tail(s)) ELSE AllDigits(s)

IntVal(s) ==
    IF Head(s) = "-" THEN 0 - DigitsVal(Tail(s))
    ELSE IF Head(s) = "+" THEN DigitsVal(Tail(s)) ELSE DigitsVal(s)

\* ------------------------------------------------------------------ build_PDG helpers
\* nodes[idx] with the program's 0-based index
At(rows, idx) == rows[idx + 1]

\* as extract_line_number, looking at the node's own location only
extract_line_number_own(idx, rows) ==
    IF idx < 0 THEN 0 - 1
    ELSE LET location == At(rows, idx).location
         IN  IF location # <<>> /\ IntOK(SplitHead(location))
               THEN IntVal(SplitHead(location))
               ELSE 0 - 1

RECURSIVE extract_line_number(_, _)
extract_line_number(idx, rows) ==
    IF idx < 0 THEN 0 - 1
    ELSE LET location == At(rows, idx).location
         IN  IF location # <<>> /\ IntOK(SplitHead(location))
               THEN IntVal(SplitHead(location))
               ELSE extract_line_number(idx - 1, rows)

\* the content of data/sensiAPI.txt, split at commas and stripped
sensi_api_set == {"strcpy"}

ArithOperators == {"+", "-", "*", "/"}

\* extract_nodes_with_location_info raises ValueError at the first located
\* node whose line is not an integer
LocationRaises(rows) ==
    \E i \in DOMAIN rows : rows[i].location # <<>> /\ ~IntOK(SplitHead(rows[i].location))

\* node_id_to_line_number: the last located row of an identifier wins
node_id_to_ln(rows) ==
    LET located == {i \in DOMAIN rows : rows[i].location # <<>>}
        ids == {rows[i].key : i \in located}
        last(id) == CHOOSE i \in located :
                      /\ rows[i].key = id
                      /\ \A j \in located : rows[j].key = id => j <= i
    IN  [id \in ids |-> IntVal(SplitHead(rows[last(id)].location))]

\* the list built by lines 147-160 for one edge type
RECURSIVE EdgeList(_, _, _, _)
EdgeList(rows, idToLn, etype, t) ==
    IF rows = <<>> THEN <<>>
    ELSE LET edge == Head(rows)
             rest == EdgeList(Tail(rows), idToLn, etype, t)
         IN  IF edge.start \notin DOMAIN idToLn \/ edge.end \notin DOMAIN idToLn
               THEN rest
               ELSE IF edge.type = etype
                      THEN <<<<idToLn[edge.start], idToLn[edge.end], t>>>> \o rest
                      ELSE rest

EmptyGraph == [none |-> FALSE, nodes |-> {}, edges |-> {}, tag |-> <<>>]

\* nx.DiGraph.add_edges_from: both endpoints become nodes; an edge that is
\* already there keeps its place and has its attribute overwritten
RECURSIVE add_edges_from(_, _)
add_edges_from(G, ebunch) ==
    IF ebunch = <<>> THEN G
    ELSE LET e == Head(ebunch)
             uv == <<e[1], e[2]>>
             es == G.edges \cup {uv}
             G1 == [none |-> FALSE,
                    nodes |-> G.nodes \cup {e[1], e[2]},
                    edges |-> es,
                    tag |-> [x \in es |-> IF x = uv THEN e[3] ELSE G.tag[x]]]
         IN  add_edges_from(G1, Tail(ebunch))

VARIABLES
    pc,               \* position in the pipeline
    err,              \* the exception that ended the run, "" when none
    sensi_exists,     \* exists("data/sensiAPI.txt")
    file_map,         \* the discovered files, <<1, ..., n>>
    file_idx,         \* number of loop iterations of process_parallel started
    tables,           \* [nodes_exists, edges_exists] of the current file
    nodes, edges,     \* rows of nodes.csv / edges.csv of the current file
    node_idx,         \* loop index of the classification loop
    call_lines, array_lines, ptr_lines, arithmatic_lines,
    PDG, key_line_map,
    res,              \* build_XFG's result
    key,              \* index in Categories of the outer loop of build_XFG
    pending,          \* key lines of the category not yet iterated
    ln, sliced_lines, visited, bqueue, fqueue,
    out,              \* per processed file: the <<category, key line>> files written
    hist,             \* per processed file: a table was absent or without rows
    work              \* file-level work done so far in the run

vars == <<pc, err, sensi_exists, file_map, file_idx, tables, nodes, edges, node_idx,
          call_lines, array_lines, ptr_lines, arithmatic_lines, PDG, key_line_map,
          res, key, pending, ln, sliced_lines, visited, bqueue, fqueue, out, hist, work>>

runVars == <<sensi_exists, file_map, file_idx, out, hist, work>>

tableVars == <<tables, nodes, edges>>

classifyVars == <<node_idx, call_lines, array_lines, ptr_lines, arithmatic_lines>>

graphVars == <<PDG, key_line_map>>

sliceVars == <<key, pending, ln, sliced_lines, visited, bqueue, fqueue>>

\* ------------------------------------------------------------------ build_PDG
\* lines 120-141: one iteration of the classification loop
PDG_Classify ==
    /\ pc = "classify"
    /\ node_idx < Len(nodes)
    /\ LET node == At(nodes, node_idx)
           ntype == node.type
           line_no == extract_line_number(node_idx, nodes)
           add(S) == IF line_no > 0 THEN S \cup {line_no} ELSE S
       IN  IF ntype = "CallExpression" /\ node_idx + 1 >= Len(nodes)
             THEN \* nodes[node_idx + 1] is out of range
                  /\ pc' = "raised"
                  /\ err' = "IndexError"
                  /\ UNCHANGED classifyVars
             ELSE /\ call_lines' =
                       IF /\ ntype = "CallExpression"
                          /\ At(nodes, node_idx + 1).code # ""
                          /\ At(nodes, node_idx + 1).code \in sensi_api_set
                         THEN add(call_lines) ELSE call_lines
                  /\ array_lines' =
                       IF ntype = "ArrayIndexing" THEN add(array_lines) ELSE array_lines
                  /\ ptr_lines' =
                       IF ntype = "PtrMemberAccess" THEN add(ptr_lines) ELSE ptr_lines
                  /\ arithmatic_lines' =
                       IF /\ ntype \notin {"CallExpression", "ArrayIndexing", "PtrMemberAccess"}
                          /\ node.operator \in ArithOperators
                         THEN add(arithmatic_lines) ELSE arithmatic_lines
                  /\ node_idx' = node_idx + 1
                  /\ UNCHANGED <<pc, err>>
    /\ UNCHANGED <<runVars, tableVars, graphVars, res, sliceVars>>

\* lines 143-168, after the classification loop has ended
PDG_Edges ==
    /\ pc = "classify"
    /\ node_idx = Len(nodes)
    /\ IF LocationRaises(nodes)
         THEN /\ pc' = "raised"
              /\ err' = "ValueError"
              /\ UNCHANGED <<graphVars, work>>
         ELSE LET idToLn == node_id_to_ln(nodes)
                  control_edges == EdgeList(edges, idToLn, "CONTROLS", "c")
                  data_edges == EdgeList(edges, idToLn, "REACHES", "d")
              IN  /\ PDG' = add_edges_from(add_edges_from(EmptyGraph, control_edges),
                                           data_edges)
                  /\ key_line_map' =
                       [none |-> FALSE,
                        lines |-> [c \in CategorySet |->
                                     CASE c = "call" -> call_lines
                                       [] c = "array" -> array_lines
                                       [] c = "ptr" -> ptr_lines
                                       [] c = "arith" -> arithmatic_lines]]
                  /\ work' = work \cup {"PDG"}
                  /\ pc' = "build_XFG"
                  /\ err' = err
    /\ UNCHANGED <<sensi_exists, file_map, file_idx, out, hist, tableVars, classifyVars,
                   res, sliceVars>>

NextPDG ==
    \/ PDG_Classify
    \/ PDG_Edges

\* ------------------------------------------------------------------ build_XFG
\* lines 184-185: the category, from the k-th on, whose set is iterated
\* next; 0 when the outer loop ends
NextCategory(k) ==
    LET left == {j \in k..Len(Categories) : key_line_map.lines[Categories[j]] # {}}
    IN  IF left = {} THEN 0 ELSE CHOOSE j \in left : \A i \in left : j <= i

\* lines 180-185
XFG_Entry ==
    /\ pc = "build_XFG"
    /\ IF PDG.none \/ key_line_map.none
         THEN /\ res' = NoneRes
              /\ pc' = "dump_XFG"
              /\ UNCHANGED <<key, pending>>
         ELSE /\ res' = EmptyRes
              /\ IF NextCategory(1) = 0
                   THEN /\ pc' = "dump_XFG"
                        /\ UNCHANGED <<key, pending>>
                   ELSE /\ key' = NextCategory(1)
                        /\ pending' = key_line_map.lines[Categories[NextCategory(1)]]
                        /\ pc' = "xfg_key"
    /\ UNCHANGED <<err, runVars, tableVars, classifyVars, graphVars,
                   ln, sliced_lines, visited, bqueue, fqueue>>

\* line 185 (next element of the set) and lines 186-193
XFG_NextLine ==
    /\ pc = "xfg_key"
    /\ \E l \in pending :
         /\ ln' = l
         /\ pending' = pending \ {l}
         /\ sliced_lines' = {}
         /\ bqueue' = <<l>>
         /\ visited' = {l}
    /\ pc' = "xfg_backward"
    /\ UNCHANGED <<err, runVars, tableVars, classifyVars, graphVars, res, key, fqueue>>

\* lines 194-201: one iteration of the backward while loop
XFG_Backward ==
    /\ pc = "xfg_backward"
    /\ bqueue # <<>>
    /\ LET fro == Head(bqueue)
           new == Pred(PDG, fro) \ visited
       IN  /\ sliced_lines' = sliced_lines \cup {fro}
           /\ visited' = visited \cup new
           /\ \E o \in Orders(new) : bqueue' = Tail(bqueue) \o o
    /\ UNCHANGED <<pc, err, runVars, tableVars, classifyVars, graphVars, res, key,
                   pending, ln, fqueue>>

\* lines 203-207
XFG_StartForward ==
    /\ pc = "xfg_backward"
    /\ bqueue = <<>>
    /\ fqueue' = <<ln>>
    /\ visited' = {ln}
    /\ pc' = "xfg_forward"
    /\ UNCHANGED <<err, runVars, tableVars, classifyVars, graphVars, res, key,
                   pending, ln, sliced_lines, bqueue>>

\* lines 208-215: one iteration of the forward while loop
XFG_Forward ==
    /\ pc = "xfg_forward"
    /\ fqueue # <<>>
    /\ LET fro == Head(fqueue)
           new == Succ(PDG, fro) \ visited
       IN  /\ sliced_lines' = sliced_lines \cup {fro}
           /\ visited' = visited \cup new
           /\ \E o \in Orders(new) : fqueue' = Tail(fqueue) \o o
    /\ UNCHANGED <<pc, err, runVars, tableVars, classifyVars, graphVars, res, key,
                   pending, ln, bqueue>>

\* lines 216-220, then lines 184-185 and 224
XFG_Emit ==
    /\ pc = "xfg_forward"
    /\ fqueue = <<>>
    /\ IF Cardinality(sliced_lines) # 0
         THEN LET XFG == Subgraph(PDG, sliced_lines) @@ [key_line |-> ln]
                  k == Categories[key]
              IN  /\ res' = [res EXCEPT !.xfgs[k] = Append(@, XFG)]
                  /\ work' = work \cup {"slice"}
         ELSE UNCHANGED <<res, work>>
    /\ IF pending # {}
         THEN /\ pc' = "xfg_key"
              /\ UNCHANGED <<key, pending>>
         ELSE IF NextCategory(key + 1) = 0
                THEN /\ pc' = "dump_XFG"
                     /\ UNCHANGED <<key, pending>>
                ELSE /\ key' = NextCategory(key + 1)
                     /\ pending' = key_line_map.lines[Categories[NextCategory(key + 1)]]
                     /\ pc' = "xfg_key"
    /\ UNCHANGED <<err, sensi_exists, file_map, file_idx, out, hist, tableVars,
                   classifyVars, graphVars, ln, sliced_lines, visited, bqueue, fqueue>>

NextXFG ==
    \/ XFG_Entry
    \/ XFG_NextLine
    \/ XFG_Backward
    \/ XFG_StartForward
    \/ XFG_Forward
    \/ XFG_Emit

\* ------------------------------------------------------------------ inputs of build_XFG
Lines == 0..MaxLine

KeyLines == 1..MaxLine

\* the graphs PDG.add_edges_from can produce: every node is an endpoint
MkGraph(es, t) ==
    [none |-> FALSE,
     nodes |-> {e[1] : e \in es} \cup {e[2] : e \in es},
     edges |-> es,
     tag |-> t]

Graphs ==
    UNION {{MkGraph(es, t) : t \in [es -> {"c", "d"}]} :
             es \in SubsetsUpTo(Lines \X Lines, MaxGraphEdges)}

KeyLineMaps ==
    {[none |-> FALSE, lines |-> [c \in CategorySet |-> {p[2] : p \in {q \in ks : q[1] = c}}]] :
        ks \in SubsetsUpTo(CategorySet \X KeyLines, MaxKeyLines)}

Idle ==
    /\ err = ""
    /\ sensi_exists = TRUE
    /\ file_map = <<1>>
    /\ file_idx = 1
    /\ out = <<>>
    /\ hist = <<>>
    /\ work = {}
    /\ key = 1
    /\ pending = {}
    /\ ln = 0
    /\ sliced_lines = {}
    /\ visited = {}
    /\ bqueue = <<>>
    /\ fqueue = <<>>
    /\ res = NoneRes

InitXFG ==
    /\ Idle
    /\ pc = "build_XFG"
    /\ tables = [nodes_exists |-> TRUE, edges_exists |-> TRUE]
    /\ nodes = <<>>
    /\ edges = <<>>
    /\ node_idx = 0
    /\ call_lines = {}
    /\ array_lines = {}
    /\ ptr_lines = {}
    /\ arithmatic_lines = {}
    /\ PDG \in Graphs
    /\ key_line_map \in KeyLineMaps

SpecXFG == InitXFG /\ [][NextXFG]_vars

\* ------------------------------------------------------------------ inputs of build_PDG
NodeTypes == {"CallExpression", "ArrayIndexing", "PtrMemberAccess", "Identifier"}

Codes == {"", "strcpy", "foo"}

Operators == {"", "+"}

\* absent, a line:column for every line up to MaxLocLine, and a malformed one
Locations ==
    {<<>>, <<"0", ":", "1">>, <<"x", ":", "1">>}
      \cup {<<DigitChar[n], ":", "1">> : n \in 1..MaxLocLine}

EdgeTypes == {"CONTROLS", "REACHES", "FLOWS_TO"}

\* a row of nodes.csv as read_csv returns it, without its key
NodeRows(types, codes, ops) ==
    [type : types, code : codes, location : Locations, operator : ops]

\* the key of a row is its position, as the extractor numbers the nodes
WithKeys(f) == [i \in DOMAIN f |-> f[i] @@ [key |-> i - 1]]

NodeTables(n, rows) == UNION {{WithKeys(f) : f \in [1..k -> rows]} : k \in 0..n}

\* rows of edges.csv; identifier n names no row of a table of n rows
EdgeTables(n, ids, types) ==
    UNION {[1..k -> [start : ids, end : ids, type : types]] : k \in 0..n}

AfterRead ==
    /\ Idle
    /\ pc = "classify"
    /\ tables = [nodes_exists |-> TRUE, edges_exists |-> TRUE]
    /\ node_idx = 0
    /\ call_lines = {}
    /\ array_lines = {}
    /\ ptr_lines = {}
    /\ arithmatic_lines = {}
    /\ PDG = NoneGraph
    /\ key_line_map = NoneMap

\* build_PDG past line 119: any node rows, no edge rows
InitClassify ==
    /\ AfterRead
    /\ \E k \in 1..MaxNodes : \E f \in [1..k -> NodeRows(NodeTypes, Codes, Operators)] :
          nodes = WithKeys(f)
    /\ edges = <<>>

SpecClassify == InitClassify /\ [][NextPDG]_vars

\* build_PDG past line 119: every row a candidate of its type, any locations
InitResolve ==
    /\ AfterRead
    /\ \E k \in 1..MaxWalkNodes : \E f \in [1..k -> NodeRows(NodeTypes, {"strcpy"}, {"+"})] :
          nodes = WithKeys(f)
    /\ edges = <<>>

SpecResolve == InitResolve /\ [][NextPDG]_vars

\* build_PDG past line 119: rows that classify nothing, any edge rows
InitEdges ==
    /\ AfterRead
    /\ \E k \in 1..MaxNodes : \E f \in [1..k -> NodeRows({"Identifier"}, {""}, {""})] :
          nodes = WithKeys(f)
    /\ edges \in EdgeTables(MaxEdgeRows, 0..MaxNodes, EdgeTypes)

SpecPDG == InitEdges /\ [][NextPDG]_vars

\* ------------------------------------------------------------------ process_parallel
\* the tables a file of the batch can have
\* the rows that decide what a file gives the batch: a key line, a
\* call-expression, any location; a dependence edge between any identifiers
RunNodeTables ==
    NodeTables(RunMaxNodes, NodeRows({"ArrayIndexing", "CallExpression"}, {""}, {""}))

RunEdgeTables == EdgeTables(RunMaxEdgeRows, 0..RunMaxNodes, {"REACHES"})

\* line 345 (next file), lines 349-355, and lines 360, 393-394 after the last file
PP_Loop ==
    /\ pc = "loop"
    /\ IF file_idx < Len(file_map)
         THEN /\ file_idx' = file_idx + 1
              /\ pc' = "build_PDG"
         ELSE /\ pc' = "done"
              /\ UNCHANGED file_idx
    /\ UNCHANGED <<err, sensi_exists, file_map, out, hist, work, tableVars, classifyVars,
                   graphVars, res, sliceVars>>

\* line 107: the assertion fails
AssertFails_never == FALSE

AssertFails == ~sensi_exists

\* lines 105-119
PDG_Entry ==
    /\ pc = "build_PDG"
    /\ IF AssertFails
         THEN /\ pc' = "raised"
              /\ err' = "AssertionError"
              /\ UNCHANGED <<tableVars, graphVars, hist, work>>
         ELSE /\ err' = err
              /\ \E ne \in BOOLEAN, ee \in BOOLEAN :
                   /\ tables' = [nodes_exists |-> ne, edges_exists |-> ee]
                   /\ IF ~ne \/ ~ee
                        THEN /\ nodes' = <<>>
                             /\ edges' = <<>>
                             /\ work' = work
                        ELSE /\ nodes' \in RunNodeTables
                             /\ edges' \in RunEdgeTables
                             /\ work' = work \cup {"read_csv"}
                   /\ hist' = Append(hist, ~ne \/ ~ee \/ Len(nodes') = 0 \/ Len(edges') = 0)
                   /\ pc' = IF ~ne \/ ~ee \/ Len(nodes') = 0 THEN "build_XFG" ELSE "classify"
              /\ PDG' = NoneGraph
              /\ key_line_map' = NoneMap
    /\ node_idx' = 0
    /\ call_lines' = {}
    /\ array_lines' = {}
    /\ ptr_lines' = {}
    /\ arithmatic_lines' = {}
    /\ UNCHANGED <<sensi_exists, file_map, file_idx, out, res, sliceVars>>

\* the files dump_XFG writes: one per category and key line
Written(r) ==
    IF r.none THEN {}
    ELSE UNION {{<<c, r.xfgs[c][i].key_line>> : i \in DOMAIN r.xfgs[c]} : c \in CategorySet}

\* line 359 and lines 274-285; the locals of the iteration die with it
PP_Dump ==
    /\ pc = "dump_XFG"
    /\ out' = Append(out, Written(res))
    /\ work' = IF Written(res) # {} THEN work \cup {"dump"} ELSE work
    /\ pc' = "loop"
    /\ tables' = [nodes_exists |-> TRUE, edges_exists |-> TRUE]
    /\ nodes' = <<>>
    /\ edges' = <<>>
    /\ node_idx' = 0
    /\ call_lines' = {}
    /\ array_lines' = {}
    /\ ptr_lines' = {}
    /\ arithmatic_lines' = {}
    /\ PDG' = NoneGraph
    /\ key_line_map' = NoneMap
    /\ res' = NoneRes
    /\ key' = 1
    /\ pending' = {}
    /\ ln' = 0
    /\ sliced_lines' = {}
    /\ visited' = {}
    /\ bqueue' = <<>>
    /\ fqueue' = <<>>
    /\ UNCHANGED <<err, sensi_exists, file_map, file_idx, hist>>

Next ==
    \/ PP_Loop
    \/ PDG_Entry
    \/ PDG_Classify
    \/ PDG_Edges
    \/ XFG_Entry
    \/ XFG_NextLine
    \/ XFG_Backward
    \/ XFG_StartForward
    \/ XFG_Forward
    \/ XFG_Emit
    \/ PP_Dump

\* generate: the walk of the source tree gives the list, then process_parallel starts
Init ==
    /\ pc = "loop"
    /\ err = ""
    /\ sensi_exists \in BOOLEAN
    /\ file_map \in {[i \in 1..n |-> i] : n \in 0..MaxFiles}
    /\ file_idx = 0
    /\ out = <<>>
    /\ hist = <<>>
    /\ work = {}
    /\ tables = [nodes_exists |-> TRUE, edges_exists |-> TRUE]
    /\ nodes = <<>>
    /\ edges = <<>>
    /\ node_idx = 0
    /\ call_lines = {}
    /\ array_lines = {}
    /\ ptr_lines = {}
    /\ arithmatic_lines = {}
    /\ PDG = NoneGraph
    /\ key_line_map = NoneMap
    /\ res = NoneRes
    /\ key = 1
    /\ pending = {}
    /\ ln = 0
    /\ sliced_lines = {}
    /\ visited = {}
    /\ bqueue = <<>>
    /\ fqueue = <<>>

Spec == Init /\ [][Next]_vars

\* ==================================================================
\* Properties
\* ==================================================================
SliceIds == UNION {{<<c, i>> : i \in DOMAIN res.xfgs[c]} : c \in CategorySet}

Slice(p) == res.xfgs[p[1]][p[2]]

\* lines reachable from the set S against / along the edges of es
RECURSIVE BackClosure(_, _)
BackClosure(es, S) ==
    LET T == S \cup {e[1] : e \in {d \in es : d[2] \in S}}
    IN  IF T = S THEN S ELSE BackClosure(es, T)

RECURSIVE ForwardClosure(_, _)
ForwardClosure(es, S) ==
    LET T == S \cup {e[2] : e \in {d \in es : d[1] \in S}}
    IN  IF T = S THEN S ELSE ForwardClosure(es, T)

\* C1: every slice build_XFG produces contains its key line in its vertex
\* set, and a key line that is an endpoint of no PDG edge gives the
\* single-line slice {key line}.
C1_KeyLineInSlice ==
    \A p \in SliceIds :
        /\ Slice(p).key_line \in Slice(p).nodes
        /\ (\A e \in PDG.edges : Slice(p).key_line \notin {e[1], e[2]})
              => Slice(p).nodes = {Slice(p).key_line}

\* C2: the vertex set of every slice is exactly the lines reachable backward
\* from the key line united with the lines reachable forward from it, in
\* whatever order lines are dequeued and neighbours iterated.
C2_VerticesAreReach ==
    \A p \in SliceIds :
        Slice(p).nodes = BackClosure(PDG.edges, {Slice(p).key_line})
                           \cup ForwardClosure(PDG.edges, {Slice(p).key_line})

\* C3: the edge set of every slice is exactly the PDG's edges with both
\* endpoints in the slice's vertex set, each with the tag it has in the PDG.
C3_InducedEdges ==
    \A p \in SliceIds :
        /\ Slice(p).edges =
             {e \in PDG.edges : e[1] \in Slice(p).nodes /\ e[2] \in Slice(p).nodes}
        /\ \A e \in Slice(p).edges : Slice(p).tag[e] = PDG.tag[e]

\* a slice with an edge, beside a PDG edge that leaves the slice
C3_Witness ==
    \E p \in SliceIds :
        /\ Slice(p).edges # {}
        /\ \E e \in PDG.edges \ Slice(p).edges : e[1] \in Slice(p).nodes

PDG_Built == pc = "build_XFG" /\ ~PDG.none

\* C4: every edge record whose two identifiers resolve through
\* node_id_to_line gives a PDG edge from the start line to the end line,
\* tagged control for CONTROLS and data for REACHES, also when a CONTROLS
\* and a REACHES record join the same pair of lines; no other record adds
\* an edge.
C4_EdgeTags ==
    PDG_Built =>
      LET idToLn == node_id_to_ln(nodes)
          resolves(i) == edges[i].start \in DOMAIN idToLn /\ edges[i].end \in DOMAIN idToLn
          pair(i) == <<idToLn[edges[i].start], idToLn[edges[i].end]>>
      IN  /\ \A i \in DOMAIN edges :
                (resolves(i) /\ edges[i].type \in {"CONTROLS", "REACHES"}) =>
                   /\ pair(i) \in PDG.edges
                   /\ PDG.tag[pair(i)] = IF edges[i].type = "CONTROLS" THEN "c" ELSE "d"
          /\ \A e \in PDG.edges :
                \E i \in DOMAIN edges :
                   resolves(i) /\ edges[i].type \in {"CONTROLS", "REACHES"} /\ pair(i) = e

\* the nodes of the table, by the program's index, that the classifier of
\* section 4.2 puts forward for a category
IsCandidate(rows, i, c) ==
    LET t == At(rows, i).type
    IN  CASE c = "call" -> /\ t = "CallExpression"
                           /\ i + 1 < Len(rows)
                           /\ At(rows, i + 1).code # ""
                           /\ At(rows, i + 1).code \in sensi_api_set
          [] c = "array" -> t = "ArrayIndexing"
          [] c = "ptr" -> t = "PtrMemberAccess"
          [] c = "arith" -> /\ t \notin {"CallExpression", "ArrayIndexing", "PtrMemberAccess"}
                            /\ At(rows, i).operator \in ArithOperators

\* the node has a location whose text before the first colon is an integer
Located(rows, j) ==
    At(rows, j).location # <<>> /\ IntOK(SplitHead(At(rows, j).location))

Resolvable(rows, i) == \E j \in 0..i : Located(rows, j)

\* the line of the nearest located node at or below index i
NearestLine(rows, i) ==
    LET j == CHOOSE k \in 0..i : Located(rows, k) /\ \A m \in (k + 1)..i : ~Located(rows, m)
    IN  IntVal(SplitHead(At(rows, j).location))

LinesOf(c) ==
    CASE c = "call" -> call_lines
      [] c = "array" -> array_lines
      [] c = "ptr" -> ptr_lines
      [] c = "arith" -> arithmatic_lines

\* C5: for every non-empty node sequence the classification loop finishes,
\* a last node that is a call-expression included, and each category then
\* holds exactly the resolved lines (the lines above 0, see C6) of its
\* candidates.
C5_Classification ==
    /\ err # "IndexError"
    /\ (pc = "classify" /\ node_idx = Len(nodes)) =>
          \A c \in CategorySet :
             LinesOf(c) = {l \in {NearestLine(nodes, i) :
                                    i \in {k \in 0..(Len(nodes) - 1) :
                                             IsCandidate(nodes, k, c) /\ Resolvable(nodes, k)}} :
                             l > 0}

\* C6 as stated: the resolved line is that of the node's own location or of
\* the nearest located node below it; without one the candidate is dropped;
\* a candidate whose resolution succeeds is never dropped.
C6_NeverDropped ==
    \A c \in CategorySet : \A i \in 0..(node_idx - 1) :
        IsCandidate(nodes, i, c) =>
           IF Resolvable(nodes, i)
             THEN /\ extract_line_number(i, nodes) = NearestLine(nodes, i)
                  /\ NearestLine(nodes, i) \in LinesOf(c)
             ELSE extract_line_number(i, nodes) = 0 - 1

\* C6 as amended: the same resolution; a candidate is kept when its resolved
\* line is above 0 and dropped, without error, when the line is 0 or below
\* or when no node at or below it is located.
C6_Resolution ==
    /\ \A c \in CategorySet : \A i \in 0..(node_idx - 1) :
          IsCandidate(nodes, i, c) =>
             IF Resolvable(nodes, i)
               THEN /\ extract_line_number(i, nodes) = NearestLine(nodes, i)
                    /\ NearestLine(nodes, i) > 0 => NearestLine(nodes, i) \in LinesOf(c)
               ELSE extract_line_number(i, nodes) = 0 - 1
    /\ \A c \in CategorySet : \A l \in LinesOf(c) :
          /\ l > 0
          /\ \E i \in 0..(node_idx - 1) :
                IsCandidate(nodes, i, c) /\ Resolvable(nodes, i) /\ NearestLine(nodes, i) = l
    /\ err = "IndexError" =>
          At(nodes, node_idx).type = "CallExpression" /\ node_idx + 1 = Len(nodes)

\* a candidate without a location of its own was resolved through the
\* walk back and kept
C6_Witness ==
    \E c \in CategorySet : \E i \in 1..(node_idx - 1) :
        /\ IsCandidate(nodes, i, c)
        /\ ~Located(nodes, i)
        /\ Resolvable(nodes, i)
        /\ NearestLine(nodes, i) \in LinesOf(c)

\* C7: a node whose location is present but is no line:column is treated as
\* a node without location: no entry in node_id_to_line, its edges
\* discarded, and build_PDG completes with a PDG and a KeyLineSet.
C7_MalformedAbsorbed ==
    /\ err # "ValueError"
    /\ PDG_Built =>
          \A i \in DOMAIN nodes :
             ~Located(nodes, i - 1) => nodes[i].key \notin DOMAIN node_id_to_ln(nodes)

\* C8: with the sensitive-API list present and a table of the file absent,
\* build_PDG returns the no-graph result without raising and build_XFG
\* returns an empty slice collection for it, not None.
C8_NoGraphGivesNoSlices ==
    /\ (pc = "build_XFG" /\ (~tables.nodes_exists \/ ~tables.edges_exists)) =>
          err = "" /\ PDG.none /\ key_line_map.none
    /\ (pc = "dump_XFG" /\ (~tables.nodes_exists \/ ~tables.edges_exists)) =>
          /\ ~res.none
          /\ \A c \in CategorySet : res.xfgs[c] = <<>>

\* C9: in a run with the sensitive-API list present, a file whose node table
\* or edge table is absent or has no rows contributes no slice to the output.
C9_EmptyTablesGiveNoSlices ==
    \A i \in DOMAIN out : hist[i] => out[i] = {}

\* C10 as stated: without the sensitive-API list the run, for any list of
\* files, the empty one included, aborts before any file-level work and
\* never completes normally.
C10_AlwaysAborts ==
    ~sensi_exists =>
       /\ work = {}
       /\ PDG.none
       /\ \A i \in DOMAIN out : out[i] = {}
       /\ pc # "done"

\* C10 as amended: without the list no file-level work is ever done; a run
\* over a non-empty list of files aborts at its first file and never
\* completes normally; a run over the empty list completes.
C10_AbortsWhenFiles ==
    ~sensi_exists =>
       /\ work = {}
       /\ PDG.none
       /\ out = <<>>
       /\ pc \in {"loop", "build_PDG", "raised", "done"}
       /\ pc = "done" => file_map = <<>>
       /\ pc = "raised" => err = "AssertionError" /\ file_idx = 1

\* the run over two files has aborted at the first
C10_Witness ==
    ~sensi_exists /\ pc = "raised" /\ Len(file_map) = 2 /\ file_idx = 1

====
